---- MODULE Spec2Model ----
(***************************************************************************)
(* A model of janus.go: the Gateway's transaction registry, the receive    *)
(* loop (recv), the delivery goroutines (passMsg), the request wrappers    *)
(* (Info ... Detach), the Session/Handle hierarchy and the ping loop.      *)
(*                                                                         *)
(* Every goroutine is a process.  A mutex region "Lock(); op; Unlock()"    *)
(* is two steps: one that acquires the lock and one that performs the op   *)
(* and releases it.  Go maps are functions whose DOMAIN is the key set; a  *)
(* lookup of a missing key yields the zero value (0 stands for nil).       *)
(***************************************************************************)
EXTENDS Integers, Sequences, FiniteSets, Bags, TLC

\* ------------------------------------------------------------------ bounds
\* Request calls ever started on a Gateway freshly returned by Connect.
MaxCalls == 2
\* Inbound messages the transport hands to recv in one run.
MaxMsgs == 2
\* SpecHier: calls started and messages read on the built hierarchy.
MaxHierCalls == 1
MaxHierMsgs == 1
\* SpecOrder: Message calls started and messages read.
MaxOrderCalls == 1
MaxOrderMsgs == 2
\* SpecClock: Message calls started, messages read, and the ticks of time
\* that make timeoutDuration.
MaxClockCalls == 1
MaxClockMsgs == 2
TimeoutTicks == 2
\* SpecRace: calls started and messages read.
MaxRaceCalls == 1
MaxRaceMsgs == 2
\* SpecOrphan: calls started and messages read.
MaxOrphanCalls == 1
MaxOrphanMsgs == 2
\* SpecDrop: calls started and messages read.
MaxDropCalls == 1
MaxDropMsgs == 2
\* SpecFair: calls started and messages read.
MaxFairCalls == 1
MaxFairMsgs == 1
\* SpecMulti: calls started and messages read.
MaxMultiCalls == 1
MaxMultiMsgs == 3
\* SpecPair: Message calls started and messages read.
MaxPairCalls == 2
MaxPairMsgs == 2
\* SpecStream: Message calls started and messages read.
MaxStreamCalls == 1
MaxStreamMsgs == 10
\* Capacity of Handle.Events: make(chan interface{}, 8).
EventsCap == 8

VARIABLES
    transactions,      \* Gateway.transactions: guid -> channel (= call index)
    transactionsUsed,  \* Gateway.transactionsUsed: guid -> bool
    nextGuid,          \* the state behind xid.New()
    Sessions,          \* Gateway.Sessions: session id -> *Session
    sessObj,           \* the Session objects: [ID, Handles]
    handleObj,         \* the Handle objects: [ID, session]
    Events,            \* Handle.Events of each Handle object (buffered channel)
    gwLock,            \* Gateway.Mutex
    sLock,             \* Session.Mutex of each Session object
    calls,             \* the request calls (one goroutine and one channel each)
    passing,           \* bag of running "go passMsg(ch, msg)" goroutines
    rcv,               \* the recv goroutine
    png,               \* the ping goroutine
    ctxDone,           \* the errgroup's context is cancelled
    nRead              \* messages read from the connection so far

vars == <<transactions, transactionsUsed, nextGuid, Sessions, sessObj, handleObj,
          Events, gwLock, sLock, calls, passing, rcv, png, ctxDone, nRead>>

\* ----------------------------------------------------------------- helpers
EmptyMap == [k \in {} |-> 0]

MapGet(m, k) == IF k \in DOMAIN m THEN m[k] ELSE 0

MapFlag(m, k) == IF k \in DOMAIN m THEN m[k] ELSE FALSE

MapPut(m, k, v) == [x \in DOMAIN m \cup {k} |-> IF x = k THEN v ELSE m[x]]

MapDel(m, k) == [x \in DOMAIN m \ {k} |-> m[x]]

Free == [who |-> "free", id |-> 0]

ByRecv == [who |-> "recv", id |-> 0]

ByCall(c) == [who |-> "call", id |-> c]

\* ---------------------------------------------------------------- messages
\* The type tags: msgtypes maps each recognized tag to a constructor; "other"
\* stands for the recognized push tags (webrtcup, media, ...), "unknown" for
\* a tag that msgtypes does not hold.
Kinds == {"success", "error", "ack", "event", "info", "other", "unknown"}

NoMsg == [kind |-> "nil", tx |-> 0, sid |-> 0, hid |-> 0, data |-> 0, body |-> 0]

\* An inbound message: BaseMsg's Type, ID (0: ""), Session, Handle (sender),
\* a success's Data.ID, and the opaque payload.
Msg(k, t, s, h, d, b) == [kind |-> k, tx |-> t, sid |-> s, hid |-> h, data |-> d, body |-> b]

\* What conn.Read and the two json.Unmarshal calls can fail with.
Faults == {[NoMsg EXCEPT !.kind = f] : f \in {"readErr", "badEnvelope", "badPayload"}}

\* ---------------------------------------------------------------- requests
GatewayMethods == {"info", "create"}

SessionMethods == {"attach", "keepalive", "destroy"}

HandleMethods == {"request", "message", "trickle", "trickleMany", "detach"}

Methods == GatewayMethods \cup SessionMethods \cup HandleMethods

NoRet == [val |-> NoMsg, obj |-> 0, err |-> "pending", errMsg |-> NoMsg]

\* newRequest: a fresh request and its unbuffered channel.  timer is the
\* time run off the time.After of the select the call is in, waited the
\* time since its first select; both stand still where time is not modelled.
newRequest(m, s, h, guid) ==
    [method |-> m, session |-> s, handle |-> h, tx |-> guid, pc |-> "inReg",
     got |-> NoMsg, acks |-> 0, val |-> NoMsg, muts |-> 0, ret |-> NoRet,
     timer |-> 0, waited |-> 0]

\* A generator that hands out the same id again.
generateTransactionIdRepeats == IF nextGuid > 3 THEN nextGuid - 1 ELSE nextGuid

generateTransactionId == nextGuid

\* typeSwitch with Destroy and Detach lacking their "case *ErrorMsg".
typeSwitchNoErrorCase(method, kind) ==
    CASE kind = "error" /\ method \notin {"destroy", "detach"} -> "error"
      [] method = "info" /\ kind = "info" -> "match"
      [] method \in {"create", "attach", "request"} /\ kind = "success" -> "match"
      [] method \in {"keepalive", "destroy", "trickle", "trickleMany", "detach"}
             /\ kind = "ack" -> "match"
      [] method = "message" /\ kind = "ack" -> "again"
      [] method = "message" /\ kind = "event" -> "match"
      [] OTHER -> "none"

\* typeSwitch with Message taking an Ack as its answer, as Trickle does.
typeSwitchAckEnds(method, kind) ==
    CASE kind = "error" -> "error"
      [] method = "info" /\ kind = "info" -> "match"
      [] method \in {"create", "attach", "request"} /\ kind = "success" -> "match"
      [] method \in {"keepalive", "destroy", "trickle", "trickleMany", "detach", "message"}
             /\ kind = "ack" -> "match"
      [] method = "message" /\ kind = "event" -> "match"
      [] OTHER -> "none"

\* The type switch of each wrapper's select: "match" stores or returns the
\* message, "error" returns it as the error, "again" is Message's goto
\* GetMessage, "none" falls out of the switch.
typeSwitch(method, kind) ==
    CASE kind = "error" -> "error"
      [] method = "info" /\ kind = "info" -> "match"
      [] method \in {"create", "attach", "request"} /\ kind = "success" -> "match"
      [] method \in {"keepalive", "destroy", "trickle", "trickleMany", "detach"}
             /\ kind = "ack" -> "match"
      [] method = "message" /\ kind = "ack" -> "again"
      [] method = "message" /\ kind = "event" -> "match"
      [] OTHER -> "none"

\* afterSelect with Create returning its new Session without storing it.
afterSelectNoStore(method, sw) ==
    CASE sw = "error" -> "done"
      [] sw = "again" -> "wait"
      [] method = "create" -> IF sw = "match" THEN "done" ELSE "panic"
      [] method = "attach" -> IF sw = "match" THEN "lkMut" ELSE "panic"
      [] method \in {"destroy", "detach"} -> "lkMut"
      [] OTHER -> "done"

\* Where a call goes after its select received a message: the wrappers that
\* return inside the switch end there; Create/Attach go on to read
\* success.Data.ID (a nil dereference when nothing matched); Destroy/Detach
\* go on to the delete whatever the switch stored.
afterSelect(method, sw) ==
    CASE sw = "error" -> "done"
      [] sw = "again" -> "wait"
      [] method \in {"create", "attach"} -> IF sw = "match" THEN "lkMut" ELSE "panic"
      [] method \in {"destroy", "detach"} -> "lkMut"
      [] OTHER -> "done"

\* The values a call returns when it ends in the select.
selectRet(method, sw, msg) ==
    CASE sw = "error" -> [NoRet EXCEPT !.err = "error", !.errMsg = msg]
      [] sw = "match" -> [NoRet EXCEPT !.val = msg, !.err = "nil"]
      [] OTHER -> [NoRet EXCEPT !.err = "unexpected"]

\* recv at the top of its loop: "var base BaseMsg", nothing read yet.
Reading == [pc |-> "read", msg |-> NoMsg, used |-> FALSE, session |-> 0, err |-> "nil"]

\* ------------------------------------------------------------------- Init
\* Connect: empty maps, the two goroutines started.
Init ==
    /\ transactions = EmptyMap
    /\ transactionsUsed = EmptyMap
    /\ nextGuid = 1
    /\ Sessions = EmptyMap
    /\ sessObj = <<>>
    /\ handleObj = <<>>
    /\ Events = <<>>
    /\ gwLock = Free
    /\ sLock = <<>>
    /\ calls = <<>>
    /\ passing = EmptyBag
    /\ rcv = Reading
    /\ png = [pc |-> "run", err |-> "nil"]
    /\ ctxDone = FALSE
    /\ nRead = 0

\* ------------------------------------------------------------ request calls
\* The receivers a method can be called on: the Gateway, a Session the
\* caller got from Create, a Handle it got from Attach.
Receivers(m) ==
    IF m \in GatewayMethods THEN {<<0, 0>>}
    ELSE IF m \in SessionMethods THEN {<<s, 0>> : s \in 1..Len(sessObj)}
    ELSE {<<handleObj[h].session, h>> : h \in 1..Len(handleObj)}

\* A wrapper is called: newRequest, then send up to gateway.Lock().
Start(m, r) ==
    /\ gwLock = Free
    /\ gwLock' = ByCall(Len(calls) + 1)
    /\ calls' = Append(calls, newRequest(m, r[1], r[2], generateTransactionId))
    /\ nextGuid' = nextGuid + 1
    /\ UNCHANGED <<transactions, transactionsUsed, Sessions, sessObj, handleObj, Events,
                   sLock, passing, rcv, png, ctxDone, nRead>>

\* send with the Unlock deferred to the end of the function.
sendKeepsLock(c) ==
    /\ calls[c].pc = "inReg"
    /\ transactions' = MapPut(transactions, calls[c].tx, c)
    /\ transactionsUsed' = MapPut(transactionsUsed, calls[c].tx, FALSE)
    /\ calls' = [calls EXCEPT ![c].pc = "write"]
    /\ UNCHANGED <<nextGuid, Sessions, sessObj, handleObj, Events, gwLock, sLock, passing,
                   rcv, png, ctxDone, nRead>>

\* send: register the channel under the guid and clear its used flag.
send(c) ==
    /\ calls[c].pc = "inReg"
    /\ transactions' = MapPut(transactions, calls[c].tx, c)
    /\ transactionsUsed' = MapPut(transactionsUsed, calls[c].tx, FALSE)
    /\ gwLock' = Free
    /\ calls' = [calls EXCEPT ![c].pc = "write"]
    /\ UNCHANGED <<nextGuid, Sessions, sessObj, handleObj, Events, sLock, passing,
                   rcv, png, ctxDone, nRead>>

\* send: conn.Write; its error is the wrapper's result.
Write(c) ==
    /\ calls[c].pc = "write"
    /\ \E ok \in BOOLEAN :
          calls' = [calls EXCEPT ![c] =
                      IF ok THEN [@ EXCEPT !.pc = "wait"]
                      ELSE [@ EXCEPT !.pc = "done", !.ret = [NoRet EXCEPT !.err = "write"]]]
    /\ UNCHANGED <<transactions, transactionsUsed, nextGuid, Sessions, sessObj, handleObj,
                   Events, gwLock, sLock, passing, rcv, png, ctxDone, nRead>>

\* The select's other two cases: time.After(timeoutDuration) and ctx.Done().
GiveUp(c) ==
    /\ calls[c].pc = "wait"
    /\ \E why \in {"timeout", "ctx"} :
          calls' = [calls EXCEPT ![c].pc = "done", ![c].ret = [NoRet EXCEPT !.err = why]]
    /\ UNCHANGED <<transactions, transactionsUsed, nextGuid, Sessions, sessObj, handleObj,
                   Events, gwLock, sLock, passing, rcv, png, ctxDone, nRead>>

\* The call as it leaves "case msg := <-ch" with message m (acks counts the
\* Acks received so far: 0, 1, or 2 for two and more).
Received(call, m) ==
    LET sw == typeSwitch(call.method, m.kind)
        to == afterSelect(call.method, sw)
    IN [call EXCEPT
          !.got = m,
          !.acks = IF m.kind = "ack" /\ @ < 2 THEN @ + 1 ELSE @,
          !.pc = to,
          !.timer = IF to = "wait" THEN 0 ELSE @,
          !.val = IF sw = "match" THEN m ELSE @,
          !.ret = IF to = "done" THEN selectRet(call.method, sw, m) ELSE @]

\* passMsg's "case ch <- msg" on a request channel: the channel is
\* unbuffered, so the send and the call's receive are one step.
Receive(d) ==
    /\ BagIn(d, passing)
    /\ d.call # 0
    /\ calls[d.call].pc = "wait"
    /\ passing' = passing (-) SetToBag({d})
    /\ calls' = [calls EXCEPT ![d.call] = Received(@, d.msg)]
    /\ UNCHANGED <<transactions, transactionsUsed, nextGuid, Sessions, sessObj, handleObj,
                   Events, gwLock, sLock, rcv, png, ctxDone, nRead>>

\* One tick of time passes for a call in its select, while the timer made
\* by that select's time.After(timeoutDuration) has not fired.
Tick(c) ==
    /\ calls[c].pc = "wait"
    /\ calls[c].timer < TimeoutTicks
    /\ calls' = [calls EXCEPT ![c].timer = @ + 1, ![c].waited = @ + 1]
    /\ UNCHANGED <<transactions, transactionsUsed, nextGuid, Sessions, sessObj, handleObj,
                   Events, gwLock, sLock, passing, rcv, png, ctxDone, nRead>>

\* "case <-time.After(timeoutDuration)" of the select, the timer having fired.
Expire(c) ==
    /\ calls[c].pc = "wait"
    /\ calls[c].timer = TimeoutTicks
    /\ calls' = [calls EXCEPT ![c].pc = "done", ![c].ret = [NoRet EXCEPT !.err = "timeout"]]
    /\ UNCHANGED <<transactions, transactionsUsed, nextGuid, Sessions, sessObj, handleObj,
                   Events, gwLock, sLock, passing, rcv, png, ctxDone, nRead>>

\* Create and Destroy lock the Gateway, Attach and Detach the Session.
CallLock(c) ==
    /\ calls[c].pc = "lkMut"
    /\ IF calls[c].method \in {"create", "destroy"}
       THEN /\ gwLock = Free
            /\ gwLock' = ByCall(c)
            /\ UNCHANGED sLock
       ELSE /\ sLock[calls[c].session] = Free
            /\ sLock' = [sLock EXCEPT ![calls[c].session] = ByCall(c)]
            /\ UNCHANGED gwLock
    /\ calls' = [calls EXCEPT ![c].pc = "inMut"]
    /\ UNCHANGED <<transactions, transactionsUsed, nextGuid, Sessions, sessObj, handleObj,
                   Events, passing, rcv, png, ctxDone, nRead>>

Returned(call, obj) ==
    [call EXCEPT !.pc = "done", !.muts = @ + 1,
                 !.ret = [NoRet EXCEPT !.val = call.val, !.obj = obj, !.err = "nil"]]

\* Create: gateway.Sessions[session.ID] = session.
Create(c) ==
    /\ calls[c].pc = "inMut" /\ calls[c].method = "create"
    /\ sessObj' = Append(sessObj, [ID |-> calls[c].val.data, Handles |-> EmptyMap])
    /\ sLock' = Append(sLock, Free)
    /\ Sessions' = MapPut(Sessions, calls[c].val.data, Len(sessObj) + 1)
    /\ gwLock' = Free
    /\ calls' = [calls EXCEPT ![c] = Returned(@, Len(sessObj) + 1)]
    /\ UNCHANGED <<transactions, transactionsUsed, nextGuid, handleObj, Events, passing,
                   rcv, png, ctxDone, nRead>>

\* Attach: session.Handles[handle.ID] = handle.
Attach(c) ==
    /\ calls[c].pc = "inMut" /\ calls[c].method = "attach"
    /\ handleObj' = Append(handleObj, [ID |-> calls[c].val.data, session |-> calls[c].session])
    /\ Events' = Append(Events, <<>>)
    /\ sessObj' = [sessObj EXCEPT ![calls[c].session].Handles =
                      MapPut(@, calls[c].val.data, Len(handleObj) + 1)]
    /\ sLock' = [sLock EXCEPT ![calls[c].session] = Free]
    /\ calls' = [calls EXCEPT ![c] = Returned(@, Len(handleObj) + 1)]
    /\ UNCHANGED <<transactions, transactionsUsed, nextGuid, Sessions, gwLock, passing,
                   rcv, png, ctxDone, nRead>>

\* Destroy: delete(session.gateway.Sessions, session.ID).
Destroy(c) ==
    /\ calls[c].pc = "inMut" /\ calls[c].method = "destroy"
    /\ Sessions' = MapDel(Sessions, sessObj[calls[c].session].ID)
    /\ gwLock' = Free
    /\ calls' = [calls EXCEPT ![c] = Returned(@, 0)]
    /\ UNCHANGED <<transactions, transactionsUsed, nextGuid, sessObj, handleObj, Events,
                   sLock, passing, rcv, png, ctxDone, nRead>>

\* Detach: delete(handle.session.Handles, handle.ID).
Detach(c) ==
    /\ calls[c].pc = "inMut" /\ calls[c].method = "detach"
    /\ sessObj' = [sessObj EXCEPT ![calls[c].session].Handles =
                      MapDel(@, handleObj[calls[c].handle].ID)]
    /\ sLock' = [sLock EXCEPT ![calls[c].session] = Free]
    /\ calls' = [calls EXCEPT ![c] = Returned(@, 0)]
    /\ UNCHANGED <<transactions, transactionsUsed, nextGuid, Sessions, handleObj, Events,
                   gwLock, passing, rcv, png, ctxDone, nRead>>

\* ------------------------------------------------------------------ errgroup
\* errgroup.WithContext: the first function of the group that returns a
\* non-nil error cancels the group's context.
\* Goroutines run without the errgroup's shared context.
cancelOnErrorNever(err) == ctxDone

\* errgroup: the first goroutine to return a non-nil error cancels the
\* context shared by both.
cancelOnError(err) == ctxDone \/ err # "nil"

\* --------------------------------------------------------------------- recv
\* The branch taken at "if base.ID == "" || transactionUsed".
route(m, used) ==
    IF m.tx = 0 \/ used
    THEN IF m.hid = 0 THEN "read" ELSE "lkSess"
    ELSE "lkTrans"

\* goto with "continue" written as a return of an error.
gotoReturns(r, pc) ==
    IF pc = "read" THEN [r EXCEPT !.pc = "done", !.err = "dropped"] ELSE [r EXCEPT !.pc = pc]

\* recv moves on; "continue" starts the next iteration with fresh locals.
goto(r, pc) == IF pc = "read" THEN Reading ELSE [r EXCEPT !.pc = pc]

\* gateway.transactionsUsed[id]
usedFlag(id) == MapFlag(transactionsUsed, id)

\* A registry that keeps only the channel registered last.
lookupTransactionLast(id) ==
    IF id \in DOMAIN transactions THEN CHOOSE c \in 1..Len(calls) :
                                          /\ calls[c].pc # "inReg"
                                          /\ \A x \in 1..Len(calls) : calls[x].pc # "inReg" => x <= c
    ELSE 0

\* A registry from which a call that has returned is gone.
lookupTransactionLive(id) ==
    IF MapGet(transactions, id) = 0 THEN 0
    ELSE IF calls[MapGet(transactions, id)].pc = "done" THEN 0
    ELSE MapGet(transactions, id)

\* A lookup that ignores the id and returns the first channel registered.
lookupTransactionFirst(id) ==
    IF DOMAIN transactions = {} THEN 0
    ELSE transactions[CHOOSE k \in DOMAIN transactions : \A j \in DOMAIN transactions : k <= j]

\* gateway.transactions[id]
lookupTransaction(id) == MapGet(transactions, id)

\* A lookup among all Session objects, whether Gateway.Sessions holds them
\* or not.
lookupSessionAnyObject(m) ==
    IF \E s \in 1..Len(sessObj) : sessObj[s].ID = m.sid
    THEN CHOOSE s \in 1..Len(sessObj) : sessObj[s].ID = m.sid
    ELSE 0

\* gateway.Sessions[base.Session]
lookupSession(m) == MapGet(Sessions, m.sid)

\* A lookup by handle id alone, in whichever Session holds that id.
lookupHandleAnySession(s, m) ==
    IF \E x \in 1..Len(sessObj) : MapGet(sessObj[x].Handles, m.hid) # 0
    THEN MapGet(sessObj[CHOOSE x \in 1..Len(sessObj) : MapGet(sessObj[x].Handles, m.hid) # 0].Handles,
                m.hid)
    ELSE 0

\* session.Handles[base.Handle]
lookupHandle(s, m) == MapGet(sessObj[s].Handles, m.hid)

\* markUsed with the case *EventMsg missing.
markUsedNever(m) == transactionsUsed

\* The flag after the switch on msg.(type) of the reply branch.
markUsed(m) ==
    IF m.kind = "event" THEN MapPut(transactionsUsed, m.tx, TRUE) ELSE transactionsUsed

\* go passMsg(ch, msg): one more delivery goroutine.
spawn(m, c, h) == passing (+) SetToBag({[msg |-> m, call |-> c, handle |-> h]})

\* conn.Read and the decoding: a cancelled context or a fault ends the loop,
\* an unknown tag is skipped, anything else is routed.
RecvRead(inbound) ==
    /\ rcv.pc = "read"
    /\ IF ctxDone
       THEN /\ rcv' = [rcv EXCEPT !.pc = "done", !.err = "ctx"]
            /\ UNCHANGED <<ctxDone, nRead>>
       ELSE \E m \in Faults \cup inbound :
               IF m \in Faults
               THEN /\ rcv' = [rcv EXCEPT !.pc = "done", !.err = m.kind]
                    /\ ctxDone' = cancelOnError(m.kind)
                    /\ UNCHANGED nRead
               ELSE /\ nRead' = nRead + 1
                    /\ rcv' = goto([rcv EXCEPT !.msg = m],
                                    IF m.kind = "unknown" THEN "read"
                                    ELSE IF m.tx # 0 THEN "lkUsed"
                                    ELSE route(m, FALSE))
                    /\ UNCHANGED ctxDone
    /\ UNCHANGED <<transactions, transactionsUsed, nextGuid, Sessions, sessObj, handleObj,
                   Events, gwLock, sLock, calls, passing, png>>

\* gateway.Lock() before each of the three Gateway lookups.
RecvLock ==
    /\ rcv.pc \in {"lkUsed", "lkSess", "lkTrans"}
    /\ gwLock = Free
    /\ gwLock' = ByRecv
    /\ rcv' = [rcv EXCEPT !.pc = CASE rcv.pc = "lkUsed" -> "inUsed"
                                   [] rcv.pc = "lkSess" -> "inSess"
                                   [] OTHER -> "inTrans"]
    /\ UNCHANGED <<transactions, transactionsUsed, nextGuid, Sessions, sessObj, handleObj,
                   Events, sLock, calls, passing, png, ctxDone, nRead>>

\* transactionUsed = gateway.transactionsUsed[id]
RecvUsed ==
    /\ rcv.pc = "inUsed"
    /\ gwLock' = Free
    /\ rcv' = goto([rcv EXCEPT !.used = usedFlag(rcv.msg.tx)],
                    route(rcv.msg, usedFlag(rcv.msg.tx)))
    /\ UNCHANGED <<transactions, transactionsUsed, nextGuid, Sessions, sessObj, handleObj,
                   Events, sLock, calls, passing, png, ctxDone, nRead>>

\* session := gateway.Sessions[base.Session]; nil: "Session gone?", continue.
RecvSession ==
    /\ rcv.pc = "inSess"
    /\ gwLock' = Free
    /\ rcv' = goto([rcv EXCEPT !.session = lookupSession(rcv.msg)],
                    IF lookupSession(rcv.msg) = 0 THEN "read" ELSE "lkHandle")
    /\ UNCHANGED <<transactions, transactionsUsed, nextGuid, Sessions, sessObj, handleObj,
                   Events, sLock, calls, passing, png, ctxDone, nRead>>

\* session.Lock()
RecvSessionLock ==
    /\ rcv.pc = "lkHandle"
    /\ sLock[rcv.session] = Free
    /\ sLock' = [sLock EXCEPT ![rcv.session] = ByRecv]
    /\ rcv' = [rcv EXCEPT !.pc = "inHandle"]
    /\ UNCHANGED <<transactions, transactionsUsed, nextGuid, Sessions, sessObj, handleObj,
                   Events, gwLock, calls, passing, png, ctxDone, nRead>>

\* RecvHandle that, on a missing handle, tries the lookup again later.
RecvHandleRetries ==
    /\ rcv.pc = "inHandle"
    /\ sLock' = [sLock EXCEPT ![rcv.session] = Free]
    /\ rcv' = IF lookupHandle(rcv.session, rcv.msg) = 0 THEN [rcv EXCEPT !.pc = "lkHandle"]
              ELSE Reading
    /\ passing' = IF lookupHandle(rcv.session, rcv.msg) = 0 THEN passing
                  ELSE spawn(rcv.msg, 0, lookupHandle(rcv.session, rcv.msg))
    /\ UNCHANGED <<transactions, transactionsUsed, nextGuid, Sessions, sessObj, handleObj,
                   Events, gwLock, calls, png, ctxDone, nRead>>

\* handle := session.Handles[base.Handle]; nil: "Handle gone?", continue;
\* else go passMsg(handle.Events, msg).
RecvHandle ==
    /\ rcv.pc = "inHandle"
    /\ sLock' = [sLock EXCEPT ![rcv.session] = Free]
    /\ rcv' = Reading
    /\ passing' = IF lookupHandle(rcv.session, rcv.msg) = 0 THEN passing
                  ELSE spawn(rcv.msg, 0, lookupHandle(rcv.session, rcv.msg))
    /\ UNCHANGED <<transactions, transactionsUsed, nextGuid, Sessions, sessObj, handleObj,
                   Events, gwLock, calls, png, ctxDone, nRead>>

\* transaction := gateway.transactions[id], the used flag set on an
\* EventMsg; nil: return "null transaction"; else go passMsg(transaction, msg).
RecvTransaction ==
    /\ rcv.pc = "inTrans"
    /\ gwLock' = Free
    /\ transactionsUsed' = markUsed(rcv.msg)
    /\ IF lookupTransaction(rcv.msg.tx) = 0
       THEN /\ rcv' = [rcv EXCEPT !.pc = "done", !.err = "null transaction"]
            /\ ctxDone' = cancelOnError("null transaction")
            /\ UNCHANGED passing
       ELSE /\ rcv' = Reading
            /\ passing' = spawn(rcv.msg, lookupTransaction(rcv.msg.tx), 0)
            /\ UNCHANGED ctxDone
    /\ UNCHANGED <<transactions, nextGuid, Sessions, sessObj, handleObj, Events, sLock,
                   calls, png, nRead>>

\* ------------------------------------------------------------------ passMsg
\* "case ch <- msg" on a Handle's Events: the buffer has room.
Deliver(d) ==
    /\ BagIn(d, passing)
    /\ d.handle # 0
    /\ Len(Events[d.handle]) < EventsCap
    /\ passing' = passing (-) SetToBag({d})
    /\ Events' = [Events EXCEPT ![d.handle] = Append(@, d.msg)]
    /\ UNCHANGED <<transactions, transactionsUsed, nextGuid, Sessions, sessObj, handleObj,
                   gwLock, sLock, calls, rcv, png, ctxDone, nRead>>

\* passMsg without its timeout case: the send is taken to be always possible.
readyAlways(d) == TRUE

\* Whether "ch <- msg" can proceed: a receiver waits in its select, or the
\* buffer has room.
ready(d) ==
    IF d.call # 0 THEN calls[d.call].pc = "wait"
    ELSE Len(Events[d.handle]) < EventsCap

\* "case <-time.After(timeoutDuration)": nothing took the message.
Discard(d) ==
    /\ BagIn(d, passing)
    /\ ~ready(d)
    /\ passing' = passing (-) SetToBag({d})
    /\ UNCHANGED <<transactions, transactionsUsed, nextGuid, Sessions, sessObj, handleObj,
                   Events, gwLock, sLock, calls, rcv, png, ctxDone, nRead>>

\* The application reads one message from a Handle's Events.
Consume(h) ==
    /\ Events[h] # <<>>
    /\ Events' = [Events EXCEPT ![h] = Tail(@)]
    /\ UNCHANGED <<transactions, transactionsUsed, nextGuid, Sessions, sessObj, handleObj,
                   gwLock, sLock, calls, passing, rcv, png, ctxDone, nRead>>

\* --------------------------------------------------------------------- ping
\* One turn of ping's select: the context is done, or the ticker fired and
\* conn.Write succeeded or failed.
Ping ==
    /\ png.pc = "run"
    /\ IF ctxDone
       THEN png' = [pc |-> "done", err |-> "ctx"] /\ UNCHANGED ctxDone
       ELSE \E ok \in BOOLEAN :
               IF ok THEN UNCHANGED <<png, ctxDone>>
               ELSE /\ png' = [pc |-> "done", err |-> "write"]
                    /\ ctxDone' = cancelOnError("write")
    /\ UNCHANGED <<transactions, transactionsUsed, nextGuid, Sessions, sessObj, handleObj,
                   Events, gwLock, sLock, calls, passing, rcv, nRead>>

\* The owner of the context given to Connect cancels it.
Cancel ==
    /\ ~ctxDone
    /\ ctxDone' = TRUE
    /\ UNCHANGED <<transactions, transactionsUsed, nextGuid, Sessions, sessObj, handleObj,
                   Events, gwLock, sLock, calls, passing, rcv, png, nRead>>

\* ---------------------------------------------------------- specifications
\* The steps a request call takes by itself.
CallSteps ==
    \/ \E c \in 1..Len(calls) : send(c)
    \/ \E c \in 1..Len(calls) : Write(c)
    \/ \E c \in 1..Len(calls) : GiveUp(c)
    \/ \E d \in BagToSet(passing) : Receive(d)

\* The map updates of Create, Attach, Destroy and Detach.
MutSteps ==
    \/ \E c \in 1..Len(calls) : CallLock(c)
    \/ \E c \in 1..Len(calls) : Create(c)
    \/ \E c \in 1..Len(calls) : Attach(c)
    \/ \E c \in 1..Len(calls) : Destroy(c)
    \/ \E c \in 1..Len(calls) : Detach(c)

\* recv's reply branch.
ReplySteps ==
    \/ RecvLock
    \/ RecvUsed
    \/ RecvTransaction

\* recv's push branch and the Events streams.
PushSteps ==
    \/ RecvSession
    \/ RecvSessionLock
    \/ RecvHandle
    \/ \E d \in BagToSet(passing) : Deliver(d)
    \/ \E h \in 1..Len(Events) : Consume(h)

Discards == \E d \in BagToSet(passing) : Discard(d)

\* --- Spec: a Gateway fresh from Connect; the wrappers of the Gateway and
\* of a Session; every tag, every transaction id (0: none).
Inbound ==
    IF nRead < MaxMsgs
    THEN {Msg(k, t, 1, 1, IF k = "success" THEN 1 ELSE 0, 0) : k \in Kinds, t \in 0..MaxCalls}
    ELSE {}

Next ==
    \/ \E m \in GatewayMethods \cup SessionMethods :
          \E r \in Receivers(m) : Len(calls) < MaxCalls /\ Start(m, r)
    \/ RecvRead(Inbound)
    \/ CallSteps
    \/ \E c \in 1..Len(calls) : CallLock(c)
    \/ \E c \in 1..Len(calls) : Create(c)
    \/ \E c \in 1..Len(calls) : Attach(c)
    \/ \E c \in 1..Len(calls) : Destroy(c)
    \/ ReplySteps
    \/ RecvSession
    \/ RecvSessionLock
    \/ RecvHandle
    \/ Discards

Spec == Init /\ [][Next]_vars

\* The state of Spec in which Create and then Attach have returned, each on
\* a success carrying id 1.
Built(n) == Msg("success", n, 1, 1, 1, 0)

Done(m, s, n, obj) ==
    [newRequest(m, s, 0, n) EXCEPT
        !.pc = "done", !.got = Built(n), !.val = Built(n), !.muts = 1,
        !.ret = [NoRet EXCEPT !.val = Built(n), !.obj = obj, !.err = "nil"]]

InitHier ==
    /\ transactions = (1 :> 1) @@ (2 :> 2)
    /\ transactionsUsed = (1 :> FALSE) @@ (2 :> FALSE)
    /\ nextGuid = 3
    /\ Sessions = (1 :> 1)
    /\ sessObj = <<[ID |-> 1, Handles |-> (1 :> 1)]>>
    /\ handleObj = <<[ID |-> 1, session |-> 1]>>
    /\ Events = << <<>> >>
    /\ gwLock = Free
    /\ sLock = <<Free>>
    /\ calls = <<Done("create", 0, 1, 1), Done("attach", 1, 2, 1)>>
    /\ passing = EmptyBag
    /\ rcv = Reading
    /\ png = [pc |-> "run", err |-> "nil"]
    /\ ctxDone = FALSE
    /\ nRead = 2

\* InitHier is a state of Spec.
HierBuilt ==
    /\ <<transactions, transactionsUsed, nextGuid, Sessions, sessObj, handleObj>>
          = <<(1 :> 1) @@ (2 :> 2), (1 :> FALSE) @@ (2 :> FALSE), 3, (1 :> 1),
              <<[ID |-> 1, Handles |-> (1 :> 1)]>>, <<[ID |-> 1, session |-> 1]>> >>
    /\ calls = <<Done("create", 0, 1, 1), Done("attach", 1, 2, 1)>>
    /\ <<Events, gwLock, sLock, passing, rcv, nRead>>
          = << << <<>> >>, Free, <<Free>>, EmptyBag, Reading, 2>>

\* --- SpecHier: on the built hierarchy, the four calls that change it and
\* their Success, Error and Ack replies; a success carries id 1 (taken) or 2
\* (new).  No message is a push here (each carries an unused transaction
\* id), so recv never enters its push branch.
HierMethods == {"create", "attach", "destroy", "detach"}

InboundHier ==
    IF nRead < 2 + MaxHierMsgs
    THEN {Msg(k, t, 1, 1, d, 0) : k \in {"success"}, t \in 3..(2 + MaxHierCalls), d \in {1, 2}}
         \cup {Msg(k, t, 1, 1, 0, 0) : k \in {"error", "ack"}, t \in 3..(2 + MaxHierCalls)}
    ELSE {}

NextHier ==
    \/ \E m \in HierMethods :
          \E r \in Receivers(m) : Len(calls) < 2 + MaxHierCalls /\ Start(m, r)
    \/ RecvRead(InboundHier)
    \/ CallSteps
    \/ MutSteps
    \/ ReplySteps
    \/ Discards

SpecHier == InitHier /\ [][NextHier]_vars

\* --- SpecStream: one handle, Message calls, and a server that answers the
\* first of them (transaction 3) with Acks and then an Event, and after that
\* pushes Events carrying the same transaction id, addressed to the handle
\* or to a handle the session does not hold.
InboundStream ==
    IF nRead < 2 + MaxStreamMsgs
    THEN IF usedFlag(3)
         THEN {Msg("event", 3, 1, h, 0, 0) : h \in {1, 2}}
         ELSE {Msg(k, 3, 1, 1, 0, 0) : k \in {"ack", "event"}}
    ELSE {}

NextStream ==
    \/ \E r \in Receivers("message") : Len(calls) < 2 + MaxStreamCalls /\ Start("message", r)
    \/ RecvRead(InboundStream)
    \/ CallSteps
    \/ ReplySteps
    \/ PushSteps
    \/ Discards

SpecStream == InitHier /\ [][NextStream]_vars

\* --- SpecPair: one handle, concurrent Message calls, and a server that
\* answers any of their transactions with an Ack or an Event, at any time:
\* before the call is registered, while it waits, or after it gave up.
InboundPair ==
    IF nRead < 2 + MaxPairMsgs
    THEN {Msg(k, t, 1, 1, 0, 0) : k \in {"ack", "event"}, t \in 3..(2 + MaxPairCalls)}
    ELSE {}

NextPair ==
    \/ \E r \in Receivers("message") : Len(calls) < 2 + MaxPairCalls /\ Start("message", r)
    \/ RecvRead(InboundPair)
    \/ CallSteps
    \/ ReplySteps
    \/ PushSteps
    \/ Discards

SpecPair == InitHier /\ [][NextPair]_vars

\* --- SpecMulti: two Sessions (ids 1, 2) of two Handles each (ids 1, 2 in
\* both), built by six calls that have returned; Event pushes addressed to
\* any (session id, handle id), and calls that change the hierarchy
\* meanwhile.
DoneID(m, s, n, id, obj) ==
    [Done(m, s, n, obj) EXCEPT !.got.data = id, !.val.data = id, !.ret.val.data = id]

InitMulti ==
    /\ transactions = [n \in 1..6 |-> n]
    /\ transactionsUsed = [n \in 1..6 |-> FALSE]
    /\ nextGuid = 7
    /\ Sessions = (1 :> 1) @@ (2 :> 2)
    /\ sessObj = <<[ID |-> 1, Handles |-> (1 :> 1) @@ (2 :> 2)],
                   [ID |-> 2, Handles |-> (1 :> 3) @@ (2 :> 4)]>>
    /\ handleObj = <<[ID |-> 1, session |-> 1], [ID |-> 2, session |-> 1],
                     [ID |-> 1, session |-> 2], [ID |-> 2, session |-> 2]>>
    /\ Events = << <<>>, <<>>, <<>>, <<>> >>
    /\ gwLock = Free
    /\ sLock = <<Free, Free>>
    /\ calls = <<DoneID("create", 0, 1, 1, 1), DoneID("create", 0, 2, 2, 2),
                 DoneID("attach", 1, 3, 1, 1), DoneID("attach", 1, 4, 2, 2),
                 DoneID("attach", 2, 5, 1, 3), DoneID("attach", 2, 6, 2, 4)>>
    /\ passing = EmptyBag
    /\ rcv = Reading
    /\ png = [pc |-> "run", err |-> "nil"]
    /\ ctxDone = FALSE
    /\ nRead = 6

InboundMulti ==
    IF nRead < 6 + MaxMultiMsgs
    THEN {Msg("event", 0, s, h, 0, 0) : s \in {1, 2}, h \in {1, 2}}
         \cup {Msg("success", t, 1, 1, d, 0) : t \in 7..(6 + MaxMultiCalls), d \in {1, 2}}
         \cup {Msg("ack", t, 1, 1, 0, 0) : t \in 7..(6 + MaxMultiCalls)}
    ELSE {}

NextMulti ==
    \/ \E m \in HierMethods :
          \E r \in Receivers(m) : Len(calls) < 6 + MaxMultiCalls /\ Start(m, r)
    \/ RecvRead(InboundMulti)
    \/ CallSteps
    \/ MutSteps
    \/ ReplySteps
    \/ PushSteps
    \/ Discards

SpecMulti == InitMulti /\ [][NextMulti]_vars

\* --- SpecOrder: one handle and one Message call; the server sends Acks and
\* Events for the call and Event pushes for the handle, each message
\* carrying in its body its position in the transport's order.
InboundOrder ==
    IF nRead < 2 + MaxOrderMsgs
    THEN {Msg(k, 3, 1, 1, 0, nRead + 1) : k \in {"ack", "event"}}
         \cup {Msg("event", 0, 1, 1, 0, nRead + 1)}
    ELSE {}

NextOrder ==
    \/ \E r \in Receivers("message") : Len(calls) < 2 + MaxOrderCalls /\ Start("message", r)
    \/ RecvRead(InboundOrder)
    \/ CallSteps
    \/ ReplySteps
    \/ PushSteps
    \/ Discards

SpecOrder == InitHier /\ [][NextOrder]_vars

\* --- SpecFair: the two loops of Connect with one call that changes the
\* hierarchy, its replies (possibly for a transaction not yet registered),
\* pushes, transport faults, failing pings, and the owner's cancel.  The
\* transport and the callers are not obliged to do anything; what is fair:
\* a loop that can observe the cancelled context does, recv's steps between
\* two reads are taken, and a held lock is released.
InboundFair ==
    IF nRead < 2 + MaxFairMsgs
    THEN {Msg("success", 3, 1, 1, 2, 0), Msg("ack", 3, 1, 1, 0, 0), Msg("event", 0, 1, 1, 0, 0)}
    ELSE {}

NextFair ==
    \/ \E m \in HierMethods :
          \E r \in Receivers(m) : Len(calls) < 2 + MaxFairCalls /\ Start(m, r)
    \/ RecvRead(InboundFair)
    \/ CallSteps
    \/ MutSteps
    \/ ReplySteps
    \/ PushSteps
    \/ Discards
    \/ Ping
    \/ Cancel

Fairness ==
    /\ WF_vars(ctxDone /\ Ping)
    /\ WF_vars(ctxDone /\ RecvRead(InboundFair))
    /\ WF_vars(ReplySteps)
    /\ WF_vars(RecvSession)
    /\ WF_vars(RecvSessionLock)
    /\ WF_vars(RecvHandle)
    /\ WF_vars(\E c \in 1..Len(calls) : send(c))
    /\ WF_vars(\E c \in 1..Len(calls) : Create(c))
    /\ WF_vars(\E c \in 1..Len(calls) : Attach(c))
    /\ WF_vars(\E c \in 1..Len(calls) : Destroy(c))
    /\ WF_vars(\E c \in 1..Len(calls) : Detach(c))

SpecFair == InitHier /\ [][NextFair]_vars /\ Fairness

\* --- SpecDrop: on the built hierarchy, messages recv cannot deliver: an
\* unknown tag, and pushes addressed to a session or a handle that is not
\* (or, after a Destroy or Detach, no longer) in the maps; besides them the
\* pushes it can deliver and the Ack of the one call.
InboundDrop ==
    IF nRead < 2 + MaxDropMsgs
    THEN {Msg("unknown", t, 1, 1, 0, 0) : t \in {0, 3}}
         \cup {Msg("event", 0, s, h, 0, 0) : s \in {1, 2}, h \in {1, 2}}
         \cup {Msg("ack", t, 1, 1, 0, 0) : t \in 3..(2 + MaxDropCalls)}
    ELSE {}

NextDrop ==
    \/ \E m \in {"destroy", "detach"} :
          \E r \in Receivers(m) : Len(calls) < 2 + MaxDropCalls /\ Start(m, r)
    \/ RecvRead(InboundDrop)
    \/ CallSteps
    \/ \E c \in 1..Len(calls) : CallLock(c)
    \/ \E c \in 1..Len(calls) : Destroy(c)
    \/ \E c \in 1..Len(calls) : Detach(c)
    \/ ReplySteps
    \/ PushSteps
    \/ Discards

SpecDrop == InitHier /\ [][NextDrop]_vars

\* --- SpecLive: SpecFair, and each passMsg leaves its select: the send when
\* it is possible, the timeout when it is not.
EndDelivery == \E d \in BagToSet(passing) : Deliver(d) \/ Receive(d) \/ Discard(d)

SpecLive == InitHier /\ [][NextFair]_vars /\ Fairness /\ WF_vars(EndDelivery)

\* --- SpecClock: one handle and a Message call with time: the call leaves
\* its select on the timeout only when that select's timer has fired.  The
\* server answers with Acks and an Event.
InboundClock ==
    IF nRead < 2 + MaxClockMsgs /\ ~usedFlag(3)
    THEN {Msg(k, 3, 1, 1, 0, 0) : k \in {"ack", "event"}}
    ELSE {}

NextClock ==
    \/ \E r \in Receivers("message") : Len(calls) < 2 + MaxClockCalls /\ Start("message", r)
    \/ RecvRead(InboundClock)
    \/ \E c \in 1..Len(calls) : send(c)
    \/ \E c \in 1..Len(calls) : Write(c)
    \/ \E c \in 1..Len(calls) : Tick(c)
    \/ \E c \in 1..Len(calls) : Expire(c)
    \/ \E d \in BagToSet(passing) : Receive(d)
    \/ ReplySteps
    \/ Discards

SpecClock == InitHier /\ [][NextClock]_vars

\* --- SpecRace: on the built hierarchy, a Create or an Attach whose Success
\* carries the new id 2, and pushes addressed to the sessions and handles 1
\* and 2, read at any time: before the Success, between the Success and the
\* caller's map insert, or after it.
InboundRace ==
    IF nRead < 2 + MaxRaceMsgs
    THEN {Msg("success", t, 1, 1, 2, 0) : t \in 3..(2 + MaxRaceCalls)}
         \cup {Msg("event", 0, s, h, 0, 0) : s \in {1, 2}, h \in {1, 2}}
    ELSE {}

NextRace ==
    \/ \E m \in {"create", "attach"} :
          \E r \in Receivers(m) : Len(calls) < 2 + MaxRaceCalls /\ Start(m, r)
    \/ RecvRead(InboundRace)
    \/ CallSteps
    \/ \E c \in 1..Len(calls) : CallLock(c)
    \/ \E c \in 1..Len(calls) : Create(c)
    \/ \E c \in 1..Len(calls) : Attach(c)
    \/ ReplySteps
    \/ PushSteps
    \/ Discards

SpecRace == InitHier /\ [][NextRace]_vars

\* --- SpecOrphan: on the built hierarchy, a Destroy of the session (and a
\* Create that may bring its id back), their replies, and pushes addressed
\* to handle 1 of session id 1; a push carries in its body whether, when it
\* was read, the built session had left Gateway.Sessions (1) or not (0).
InboundOrphan ==
    IF nRead < 2 + MaxOrphanMsgs
    THEN {Msg("ack", t, 1, 1, 0, 0) : t \in 3..(2 + MaxOrphanCalls)}
         \cup {Msg("success", t, 1, 1, 1, 0) : t \in 3..(2 + MaxOrphanCalls)}
         \cup {Msg("event", 0, 1, 1, 0, IF MapGet(Sessions, 1) = 1 THEN 0 ELSE 1)}
    ELSE {}

NextOrphan ==
    \/ \E m \in {"destroy", "create"} :
          \E r \in Receivers(m) : Len(calls) < 2 + MaxOrphanCalls /\ Start(m, r)
    \/ RecvRead(InboundOrphan)
    \/ CallSteps
    \/ \E c \in 1..Len(calls) : CallLock(c)
    \/ \E c \in 1..Len(calls) : Create(c)
    \/ \E c \in 1..Len(calls) : Destroy(c)
    \/ ReplySteps
    \/ PushSteps
    \/ Discards

SpecOrphan == InitHier /\ [][NextOrphan]_vars

\* ------------------------------------------------------------------ claims
\* The hierarchy: Gateway.Sessions and the Handles map of every Session.
Hierarchy == <<Sessions, [s \in 1..Len(sessObj) |-> sessObj[s].Handles]>>

\* This step is call c receiving a message of kind k on its channel.
Receives(c, k) ==
    /\ calls[c].pc = "wait"
    /\ calls'[c].got.kind = k
    /\ \E d \in BagToSet(passing) : d.call = c /\ CopiesIn(d, passing') < CopiesIn(d, passing)

\* The reply each of the four hierarchy calls waits for.
okKind(method) == IF method \in {"create", "attach"} THEN "success" ELSE "ack"

\* C1: a Create, Attach, Destroy or Detach call whose channel hands it an
\* Error message returns that message as its error, in the same step and
\* without touching Gateway.Sessions or any Session.Handles; having returned
\* so, it has performed no map update at all.
C1_ErrorLeavesHierarchy ==
    /\ [][\A c \in 1..Len(calls) :
             (calls[c].method \in HierMethods /\ Receives(c, "error"))
                => /\ calls'[c].pc = "done"
                   /\ calls'[c].ret = [NoRet EXCEPT !.err = "error", !.errMsg = calls'[c].got]
                   /\ Hierarchy' = Hierarchy]_vars
    /\ [](\A c \in 1..Len(calls) :
             (calls[c].method \in HierMethods /\ calls[c].got.kind = "error")
                => calls[c].pc = "done" /\ calls[c].muts = 0 /\ calls[c].ret.err = "error")

\* C1's case: a Destroy answered by an Error has returned, and its session
\* is still in Gateway.Sessions.
C1_Witness ==
    \E c \in 1..Len(calls) :
        /\ calls[c].method = "destroy" /\ calls[c].pc = "done"
        /\ calls[c].ret.err = "error"
        /\ MapGet(Sessions, sessObj[calls[c].session].ID) = calls[c].session

\* The map update of call c, as a relation between Hierarchy and Hierarchy'.
Updates(c) ==
    LET m == calls[c].method
        id == calls[c].got.data
        s == calls[c].session
    IN CASE m = "create" ->
              /\ Sessions' = MapPut(Sessions, id, Len(sessObj) + 1)
              /\ sessObj' = Append(sessObj, [ID |-> id, Handles |-> EmptyMap])
         [] m = "attach" ->
              /\ Sessions' = Sessions
              /\ handleObj' = Append(handleObj, [ID |-> id, session |-> s])
              /\ sessObj' = [sessObj EXCEPT ![s].Handles = MapPut(@, id, Len(handleObj) + 1)]
         [] m = "destroy" ->
              /\ Sessions' = MapDel(Sessions, sessObj[s].ID)
              /\ sessObj' = sessObj
         [] OTHER ->
              /\ Sessions' = Sessions
              /\ sessObj' = [sessObj EXCEPT ![s].Handles =
                                MapDel(@, handleObj[calls[c].handle].ID)]

\* C2: a Create or Attach that receives a Success, and a Destroy or Detach
\* that receives an Ack, goes on to its map update; the update inserts or
\* deletes exactly the entry keyed by the server-provided id (Create, Attach)
\* or by the receiver's id (Destroy, Detach) and changes no other entry; and
\* when the call has returned it has performed that update exactly once.
C2_SuccessMutatesOnce ==
    /\ [][\A c \in 1..Len(calls) :
             /\ (calls[c].method \in HierMethods /\ Receives(c, okKind(calls[c].method)))
                   => calls'[c].pc = "lkMut" /\ Hierarchy' = Hierarchy
             /\ (calls[c].method \in HierMethods /\ calls[c].got.kind = okKind(calls[c].method)
                    /\ calls'[c].muts # calls[c].muts)
                   => Updates(c) /\ calls'[c].pc = "done"]_vars
    /\ [](\A c \in 1..Len(calls) :
             (calls[c].method \in HierMethods /\ calls[c].got.kind = okKind(calls[c].method)
                 /\ calls[c].pc = "done")
                => calls[c].muts = 1 /\ calls[c].ret.err = "nil")

\* C2's case: on the built hierarchy a further Create has returned a second
\* session, stored beside the first.
C2_Witness ==
    \E c \in 3..Len(calls) :
        /\ calls[c].method = "create" /\ calls[c].pc = "done" /\ calls[c].ret.err = "nil"
        /\ MapGet(Sessions, calls[c].got.data) = calls[c].ret.obj
        /\ Cardinality(DOMAIN Sessions) = 2

\* The Event deliveries bound for call c's channel, running or received.
EventsToChannel(c) ==
    LET ds == {d \in BagToSet(passing) : d.call = c /\ d.msg.kind = "event"}
        Sum[S \in SUBSET ds] ==
            IF S = {} THEN 0
            ELSE LET d == CHOOSE x \in S : TRUE IN CopiesIn(d, passing) + Sum[S \ {d}]
    IN Sum[ds] + (IF calls[c].got.kind = "event" THEN 1 ELSE 0)

\* C3 (amended): once recv has routed an Event as the reply of transaction
\* T and so marked T used, a later message carrying T is never looked up as
\* a reply: it is not sent to T's channel (the channel is sent one Event at
\* most) and cannot end recv with "null transaction"; with a non-zero sender
\* it goes to the session and handle lookups, and with both present recv
\* starts a passMsg on that handle's Events.
C3_UsedRoutedToEvents ==
    /\ [](\A c \in 1..Len(calls) : EventsToChannel(c) <= 1)
    /\ [](rcv.pc \in {"lkTrans", "inTrans"} => ~usedFlag(rcv.msg.tx))
    /\ [][/\ (rcv'.err = "null transaction" /\ rcv.err = "nil") => ~usedFlag(rcv.msg.tx)
          /\ (rcv.pc = "inUsed" /\ rcv' # rcv /\ usedFlag(rcv.msg.tx) /\ rcv.msg.hid # 0)
                => rcv'.pc = "lkSess"
          /\ (rcv.pc = "inHandle" /\ rcv' # rcv /\ MapGet(sessObj[rcv.session].Handles, rcv.msg.hid) # 0)
                => passing' = passing (+) SetToBag({[msg |-> rcv.msg, call |-> 0,
                                  handle |-> sessObj[rcv.session].Handles[rcv.msg.hid]]})]_vars

\* C3's case: a Message call has returned on the Event that marked its
\* transaction used, and a later message carrying that transaction id is in
\* the handle's Events.
C3_Witness ==
    \E c \in 1..Len(calls) :
        /\ calls[c].pc = "done" /\ calls[c].got.kind = "event"
        /\ usedFlag(calls[c].tx)
        /\ \E i \in 1..Len(Events[calls[c].handle]) :
              Events[calls[c].handle][i].tx = calls[c].tx

\* This step is passMsg giving up on delivery d.
Discarded(d) ==
    /\ CopiesIn(d, passing') < CopiesIn(d, passing)
    /\ Events' = Events
    /\ calls' = calls

\* C3 as claimed: in addition, every such message reaches the handle's
\* Events, that is, no passMsg bound for an Events stream with a message
\* that carries a used transaction id gives up.
C3_AsClaimed ==
    /\ C3_UsedRoutedToEvents
    /\ [][\A d \in BagToSet(passing) :
             (d.handle # 0 /\ d.msg.tx # 0 /\ usedFlag(d.msg.tx)) => ~Discarded(d)]_vars

\* C4: an Ack received by a Message call leaves the call waiting, with no
\* result; a Message call that has returned on an Event returned exactly
\* that Event and a nil error, however many Acks came before; and a Message
\* call whose last message was an Ack can only have returned on its timeout
\* or its context.
C4_MessageSkipsAcks ==
    /\ [][\A c \in 1..Len(calls) :
             (calls[c].method = "message" /\ Receives(c, "ack"))
                => calls'[c].pc = "wait" /\ calls'[c].ret = NoRet]_vars
    /\ [](\A c \in 1..Len(calls) :
             (calls[c].method = "message" /\ calls[c].pc = "done")
                => /\ calls[c].got.kind = "event"
                      => calls[c].ret = [NoRet EXCEPT !.val = calls[c].got, !.err = "nil"]
                   /\ calls[c].got.kind = "ack" => calls[c].ret.err \in {"timeout", "ctx"})

\* C4's case: a Message call received two Acks and then an Event, and has
\* returned.
C4_Witness ==
    \E c \in 1..Len(calls) :
        /\ calls[c].method = "message" /\ calls[c].pc = "done"
        /\ calls[c].acks = 2 /\ calls[c].got.kind = "event"

\* C6: a call that leaves its select without having taken a message from
\* its channel returns the timeout (or context) error; and a message that
\* carries transaction id T is only ever sent to, and received by, the call
\* that registered T, also when it arrives after that call gave up.
C6_LateReplyStaysWithItsCall ==
    /\ [](\A d \in BagToSet(passing) : d.call # 0 => d.msg.tx = calls[d.call].tx)
    /\ [](\A c \in 1..Len(calls) : calls[c].got # NoMsg => calls[c].got.tx = calls[c].tx)
    /\ [][\A c \in 1..Len(calls) :
             (calls[c].pc = "wait" /\ calls'[c].pc = "done" /\ passing' = passing)
                => /\ calls'[c].ret.err \in {"timeout", "ctx"}
                   /\ calls'[c].ret.val = NoMsg
                   /\ calls'[c].got = calls[c].got]_vars

\* C6's case: one call timed out before any reply and its reply, arrived
\* late, is on its way to the abandoned channel, while another call has
\* received a reply of its own.
C6_Witness ==
    \E c, o \in 3..Len(calls) :
        /\ c # o
        /\ calls[c].pc = "done" /\ calls[c].ret.err = "timeout" /\ calls[c].got = NoMsg
        /\ \E d \in BagToSet(passing) : d.call = c
        /\ calls[o].got # NoMsg

\* C7: every call past its registration is the one its transaction id maps
\* to, no two calls hold the same id, and a step never changes the channel
\* of a registered id nor clears its used flag.
C7_OneRegistrationPerId ==
    /\ [](\A c \in 1..Len(calls) :
             /\ calls[c].pc # "inReg" => MapGet(transactions, calls[c].tx) = c
             /\ \A o \in 1..Len(calls) : o # c => calls[o].tx # calls[c].tx)
    /\ [][\A id \in DOMAIN transactions :
             /\ MapGet(transactions', id) = transactions[id]
             /\ transactionsUsed[id] => MapFlag(transactionsUsed', id)]_vars

\* C7's case: with the first Message call's id marked used, a second call
\* has just registered its own id.
C7_Witness ==
    /\ Len(calls) = 4
    /\ usedFlag(calls[3].tx)
    /\ calls[4].pc = "write"
    /\ MapGet(transactions, calls[4].tx) = 4

\* C5: every message on a Handle's Events stream, and every message a
\* delivery goroutine holds for that stream, carries the id of the Session
\* the Handle belongs to and the Handle's own id.
C5_EventsReachTheirHandle ==
    /\ \A h \in 1..Len(Events) : \A i \in 1..Len(Events[h]) :
          /\ Events[h][i].sid = sessObj[handleObj[h].session].ID
          /\ Events[h][i].hid = handleObj[h].ID
    /\ \A d \in BagToSet(passing) : d.handle # 0 =>
          /\ d.msg.sid = sessObj[handleObj[d.handle].session].ID
          /\ d.msg.hid = handleObj[d.handle].ID

\* C5's case: Handles of two different Sessions that share a handle id each
\* hold an Event, and a call has changed the hierarchy meanwhile.
C5_Witness ==
    /\ \E h, g \in 1..Len(Events) :
          /\ handleObj[h].session # handleObj[g].session
          /\ handleObj[h].ID = handleObj[g].ID
          /\ Events[h] # <<>> /\ Events[g] # <<>>
    /\ \E c \in 7..Len(calls) : calls[c].pc = "done" /\ calls[c].muts = 1

\* C8 as claimed: a Handle's Events stream holds its messages in the order
\* the transport delivered them, and a call receives the messages of its
\* channel in that order.
C8_AsClaimed ==
    /\ [](\A h \in 1..Len(Events) : \A i, j \in 1..Len(Events[h]) :
             i < j => Events[h][i].body < Events[h][j].body)
    /\ [][\A c \in 1..Len(calls) :
             (\E k \in Kinds : Receives(c, k)) => calls'[c].got.body > calls[c].got.body]_vars

\* The reply a wrapper returns as its result.
replyKind(method) ==
    CASE method = "info" -> "info"
      [] method \in {"create", "attach", "request"} -> "success"
      [] method = "message" -> "event"
      [] OTHER -> "ack"

\* C9 as claimed: a call that received a message of a kind that is neither
\* its reply kind nor Error (nor Ack, for Message) has returned the
\* "unexpected response" error.
C9_AsClaimed ==
    \A c \in 1..Len(calls) :
        (/\ calls[c].got # NoMsg
         /\ calls[c].got.kind \notin {replyKind(calls[c].method), "error"}
         /\ ~(calls[c].method = "message" /\ calls[c].got.kind = "ack"))
            => calls[c].pc = "done" /\ calls[c].ret.err = "unexpected"

\* C10: a loop that has ended has cancelled the shared context (or ended
\* because of it), and once one of the two loops has ended the other one
\* ends as well.
C10_LoopsEndTogether ==
    /\ []((rcv.pc = "done" \/ png.pc = "done") => ctxDone)
    /\ (rcv.pc = "done" \/ png.pc = "done") ~> (rcv.pc = "done" /\ png.pc = "done")

\* C10's case: recv ended on a message for a transaction nobody registered,
\* and ping ended on the cancelled context.
C10_Witness ==
    /\ rcv.pc = "done" /\ rcv.err = "null transaction"
    /\ png.pc = "done" /\ png.err = "ctx"

\* C11 as claimed: Gateway.Sessions and the Handles maps change only in the
\* map update of a Create or Attach that received a Success, or of a Destroy
\* or Detach that received an Ack.
C11_AsClaimed ==
    [][Hierarchy' # Hierarchy
          => \E c \in 1..Len(calls) :
                /\ calls'[c].muts # calls[c].muts
                /\ calls[c].got.kind = okKind(calls[c].method)]_vars

\* C12: recv reaches the transaction lookup only with a message that
\* carries a transaction id not marked used when it was checked.  At the
\* lookup, if no channel is registered under the id, recv ends with "null
\* transaction" and starts no delivery; if one is registered, recv hands the
\* message to a delivery goroutine for exactly that channel and goes on
\* reading.
C12_NullTransactionIffUnregistered ==
    /\ [](rcv.pc \in {"lkTrans", "inTrans"} => rcv.msg.tx # 0 /\ ~rcv.used)
    /\ [][(rcv.pc = "inTrans" /\ rcv' # rcv)
            => IF rcv.msg.tx \in DOMAIN transactions
               THEN /\ rcv' = Reading
                    /\ passing' = passing (+) SetToBag({[msg |-> rcv.msg,
                                                         call |-> transactions[rcv.msg.tx],
                                                         handle |-> 0]})
               ELSE /\ rcv'.pc = "done" /\ rcv'.err = "null transaction"
                    /\ passing' = passing /\ calls' = calls /\ Events' = Events]_vars
    /\ [][rcv'.err = "null transaction" /\ rcv.err # "null transaction"
            => rcv.pc = "inTrans" /\ rcv.msg.tx \notin DOMAIN transactions]_vars

\* C12's case: with one call registered, recv has ended on a message that
\* carries another id, registered by nobody, and no delivery is under way.
C12_Witness ==
    /\ rcv.pc = "done" /\ rcv.err = "null transaction"
    /\ DOMAIN transactions # {}
    /\ rcv.msg.tx \notin DOMAIN transactions
    /\ passing = EmptyBag

\* The registry, the used flags, the hierarchy, the streams and the calls.
Kept == <<transactions, transactionsUsed, Sessions, sessObj, handleObj, Events, calls>>

\* C13: a message that was read and decoded never ends recv at the read
\* (an unknown tag is skipped); a push whose session id is not in
\* Gateway.Sessions, or whose handle id is not in that session's Handles, is
\* dropped; and whenever recv ends an iteration without starting a
\* delivery it is back at its read, with no error, the registry, the used
\* flags, the maps, the streams and the calls as they were.
C13_DropsLeaveStateAlone ==
    /\ [][(rcv.pc = "read" /\ nRead' = nRead + 1) => rcv'.pc # "done"]_vars
    /\ [][(rcv.pc = "inSess" /\ rcv' # rcv /\ rcv.msg.sid \notin DOMAIN Sessions)
            => rcv' = Reading /\ passing' = passing]_vars
    /\ [][(rcv.pc = "inHandle" /\ rcv' # rcv
             /\ rcv.msg.hid \notin DOMAIN sessObj[rcv.session].Handles)
            => rcv' = Reading /\ passing' = passing]_vars
    /\ [][(rcv'.pc = "read" /\ (nRead' # nRead \/ rcv.pc # "read") /\ passing' = passing)
            => rcv' = Reading /\ ~ctxDone' /\ Kept' = Kept]_vars

\* C13's case: with no call made, recv has read two messages, delivered
\* neither, and is at its read again.
C13_Witness ==
    /\ nRead = 4 /\ Len(calls) = 2
    /\ rcv = Reading
    /\ passing = EmptyBag
    /\ \A h \in 1..Len(Events) : Events[h] = <<>>
    /\ ~ctxDone

\* C14: the step of recv that starts a delivery goroutine takes recv to its
\* next read; recv, wherever it is in an iteration, gets to its read or its
\* end; and the delivery goroutines under way all come to an end.
C14_DeliveryNeverStalls ==
    /\ [][BagCardinality(passing') > BagCardinality(passing) => rcv' = Reading]_vars
    /\ (rcv.pc \notin {"read", "done"}) ~> (rcv.pc \in {"read", "done"})
    /\ (passing # EmptyBag) ~> (passing = EmptyBag)

\* C14's case: recv is at its read while a delivery goroutine holds a
\* message for the channel of a call that has returned.
C14_Witness ==
    /\ rcv.pc = "read"
    /\ \E d \in BagToSet(passing) : d.call # 0 /\ calls[d.call].pc = "done"

\* Call c has returned on a terminal reply that is not an Event.
ReturnedOnReply(c) ==
    /\ calls[c].pc = "done"
    /\ calls[c].got.kind \in {"success", "ack", "error", "info"}

\* C15 as claimed: the id of a call that has returned on a terminal reply
\* other than an Event is no longer in the registry, and a later message
\* carrying that id ends recv with "null transaction".
C15_AsClaimed ==
    /\ [](\A c \in 1..Len(calls) : ReturnedOnReply(c) => calls[c].tx \notin DOMAIN transactions)
    /\ [][(rcv.pc = "inTrans" /\ rcv' # rcv
             /\ \E c \in 1..Len(calls) : ReturnedOnReply(c) /\ calls[c].tx = rcv.msg.tx)
            => rcv'.err = "null transaction" /\ passing' = passing]_vars

\* Call c has left its select on the timeout or on the cancelled context.
GaveUp(c) == calls[c].pc = "done" /\ calls[c].ret.err \in {"timeout", "ctx"}

\* C16: the step in which a call gives up changes neither the registry nor
\* the used flags, and the call's id maps to its channel ever after; a
\* message for that id that reaches the transaction lookup is handed to a
\* delivery goroutine for the abandoned channel and recv reads on; and that
\* goroutine ends without anyone receiving the message and without a step
\* of recv.
C16_GiveUpKeepsRegistration ==
    /\ [][\A c \in 1..Len(calls) :
             (calls[c].pc = "wait" /\ GaveUp(c)')
                => transactions' = transactions /\ transactionsUsed' = transactionsUsed]_vars
    /\ [](\A c \in 1..Len(calls) : GaveUp(c) => MapGet(transactions, calls[c].tx) = c)
    /\ [][\A c \in 1..Len(calls) :
             (GaveUp(c) /\ rcv.pc = "inTrans" /\ rcv' # rcv /\ rcv.msg.tx = calls[c].tx)
                => /\ rcv' = Reading
                   /\ passing' = passing (+) SetToBag({[msg |-> rcv.msg, call |-> c,
                                                        handle |-> 0]})]_vars
    /\ [][\A d \in BagToSet(passing) :
             (d.call # 0 /\ GaveUp(d.call) /\ CopiesIn(d, passing') < CopiesIn(d, passing))
                => calls' = calls /\ Events' = Events /\ rcv' = rcv]_vars

\* C16's case: the one call made timed out without a message; recv has
\* since read a reply for it, the delivery has ended, the call has received
\* nothing, and recv is at its read.
C16_Witness ==
    /\ Len(calls) = 3 /\ nRead = 3
    /\ GaveUp(3) /\ calls[3].ret.err = "timeout" /\ calls[3].got = NoMsg
    /\ passing = EmptyBag
    /\ rcv = Reading

\* C17: a call holds the Gateway lock only in send's registration or in
\* Create's or Destroy's map update, and a Session lock only in Attach's or
\* Detach's map update on that session; recv holds the Gateway lock only at
\* one of its three Gateway lookups and a Session lock only at its handle
\* lookup; nobody holds a lock while writing, waiting in a select or for
\* another lock; nobody holds both kinds of lock; and whoever holds a lock
\* can take the step that releases it.
C17_LockDiscipline ==
    /\ \A c \in 1..Len(calls) :
          /\ gwLock = ByCall(c) <=>
                \/ calls[c].pc = "inReg"
                \/ calls[c].pc = "inMut" /\ calls[c].method \in {"create", "destroy"}
          /\ \A s \in 1..Len(sLock) :
                sLock[s] = ByCall(c) <=>
                   /\ calls[c].pc = "inMut" /\ calls[c].method \in {"attach", "detach"}
                   /\ calls[c].session = s
          /\ ~(gwLock = ByCall(c) /\ \E s \in 1..Len(sLock) : sLock[s] = ByCall(c))
    /\ gwLock = ByRecv <=> rcv.pc \in {"inUsed", "inSess", "inTrans"}
    /\ \A s \in 1..Len(sLock) : sLock[s] = ByRecv <=> (rcv.pc = "inHandle" /\ rcv.session = s)
    /\ gwLock # Free =>
          ENABLED (RecvUsed \/ RecvSession \/ RecvTransaction
                      \/ \E c \in 1..Len(calls) : send(c) \/ Create(c) \/ Destroy(c))
    /\ \A s \in 1..Len(sLock) : sLock[s] # Free =>
          ENABLED (RecvHandle \/ \E c \in 1..Len(calls) : Attach(c) \/ Detach(c))

\* C17's case: recv holds the Session lock for its handle lookup while a
\* call holds the Gateway lock.
C17_Witness ==
    /\ sLock[1] = ByRecv
    /\ \E c \in 1..Len(calls) : gwLock = ByCall(c)

\* C18 as claimed: no call is still in its select when more than one
\* timeout window has passed since it began to wait.
C18_AsClaimed ==
    \A c \in 1..Len(calls) : calls[c].pc = "wait" => calls[c].waited <= TimeoutTicks

\* C19: recv goes on to the handle lookup only with the session that
\* Gateway.Sessions held under the message's session id at the session
\* lookup; it starts a delivery to a Handle's Events only at its handle
\* lookup, for the handle that session's Handles holds under the message's
\* handle id at that instant; when either lookup misses, the message is gone
\* with that step; and a stream grows only by a delivery so started.
C19_DeliveredOnlyIfPresentAtLookup ==
    /\ [][(rcv.pc = "inSess" /\ rcv' # rcv)
            => IF rcv.msg.sid \in DOMAIN Sessions
               THEN rcv'.pc = "lkHandle" /\ rcv'.session = Sessions[rcv.msg.sid]
                    /\ rcv'.msg = rcv.msg /\ passing' = passing
               ELSE rcv' = Reading /\ passing' = passing]_vars
    /\ [][(rcv.pc = "inHandle" /\ rcv' # rcv)
            => /\ rcv' = Reading
               /\ IF rcv.msg.hid \in DOMAIN sessObj[rcv.session].Handles
                  THEN passing' = passing (+) SetToBag({[msg |-> rcv.msg, call |-> 0,
                                 handle |-> sessObj[rcv.session].Handles[rcv.msg.hid]]})
                  ELSE passing' = passing]_vars
    /\ [][(BagCardinality(passing') > BagCardinality(passing))
            => rcv.pc \in {"inHandle", "inTrans"}]_vars
    /\ [][\A h \in 1..Len(Events) :
             Len(Events'[h]) > Len(Events[h])
                => \E d \in BagToSet(passing) :
                      /\ d.handle = h
                      /\ Events'[h] = Append(Events[h], d.msg)
                      /\ passing' = passing (-) SetToBag({d})]_vars

\* C19's case: an Attach has received the Success that names handle 2 and
\* has not yet inserted it, and recv is at its handle lookup with a push
\* addressed to handle 2 of that session.
C19_Witness ==
    /\ rcv.pc = "inHandle" /\ rcv.msg.hid = 2
    /\ 2 \notin DOMAIN sessObj[rcv.session].Handles
    /\ \E c \in 3..Len(calls) :
          /\ calls[c].method = "attach" /\ calls[c].session = rcv.session
          /\ calls[c].pc = "lkMut" /\ calls[c].val.data = 2

\* C20: Destroy's map update removes the entry under the session's id from
\* Gateway.Sessions and changes no Session, Handle or stream; and a push
\* read after the built session left Gateway.Sessions never passes the
\* session lookup with that session, is never handed to a delivery
\* goroutine and never is in a stream.
C20_DestroyedSessionGetsNothing ==
    /\ [][\A c \in 1..Len(calls) :
             (calls[c].method = "destroy" /\ calls'[c].muts # calls[c].muts)
                => /\ Sessions' = MapDel(Sessions, sessObj[calls[c].session].ID)
                   /\ sessObj' = sessObj /\ handleObj' = handleObj /\ Events' = Events]_vars
    /\ [](rcv.pc \in {"lkHandle", "inHandle"} /\ rcv.msg.body = 1 => rcv.session # 1)
    /\ [](\A d \in BagToSet(passing) : d.handle # 0 => d.msg.body = 0)
    /\ [](\A h \in 1..Len(Events) : \A i \in 1..Len(Events[h]) : Events[h][i].body = 0)

\* C20's case: a Destroy answered by an Ack has returned, the session is
\* out of Gateway.Sessions while its Handles still hold handle 1, and recv
\* is at its session lookup with a push for that handle read afterwards.
C20_Witness ==
    /\ \E c \in 3..Len(calls) :
          /\ calls[c].method = "destroy" /\ calls[c].pc = "done"
          /\ calls[c].got.kind = "ack" /\ calls[c].muts = 1
    /\ 1 \notin DOMAIN Sessions
    /\ MapGet(sessObj[1].Handles, 1) = 1
    /\ rcv.pc = "inSess" /\ rcv.msg.body = 1 /\ rcv.msg.hid = 1

====
